---- MODULE Spec2Model ----
(***************************************************************************)
(* Push-to-talk dictation: the hotkey listener, the audio capture callback *)
(* and the recording / recognition / delivery handlers of voice_input.py   *)
(* and sensevoice_input.py.                                                *)
(*                                                                         *)
(* A text is a sequence of character tokens.  TLA+ strings are ASCII, so   *)
(* the characters the code names are written as tokens:                    *)
(*   "DOU" U+FF0C   "JU" U+3002   "TAN" U+FF01   "WEN" U+FF1F              *)
(*   "DUN" U+3001   "FEN" U+FF1B  "MAO" U+FF1A   "DQ"  the ASCII quote     *)
(*   "LP" U+FF08    "RP" U+FF09   "LB" U+3010    "RB"  U+3011              *)
(*   "SP" the space, "SOH" the control character \x01, "a" "b" any other   *)
(*   "bei" U+5317   "jing" U+4EAC   "shi" U+5E02   "chao" U+671D           *)
(*   "yang" U+9633  "qu" U+533A     "ni" U+4F60    "hao" U+597D            *)
(*   "shi2" U+4E16  "jie" U+754C                                           *)
(* and "Beijing", "City" stand for the Latin words.                        *)
(***************************************************************************)
EXTENDS Integers, Sequences, FiniteSets, TLC

----------------------------------------------------------------------------
(* Bounds of the model *)

\* raw key events the keyboard produces in one behaviour
MaxEvents == 4
\* raw key events waiting for the listener thread
MaxQueue == 1
\* audio chunks the capture callback delivers in one behaviour
MaxChunks == 2
\* characters of a text the recognizer returns
MaxTextLen == 3

----------------------------------------------------------------------------
(* Text post-processing: TextProcessor, voice_input.py 145-225 *)

\* the character class of the first re.sub of _optimize_punctuation
PunctClass ==
    {"DOU", "JU", "TAN", "WEN", "DUN", "FEN", "MAO", "DQ", "LP", "RP", "LB", "RB"}

\* the character class of the second and third re.sub of _optimize_punctuation
SpacePunctClass == {"DOU", "JU", "TAN", "WEN", "DUN", "FEN", "MAO"}

\* str.strip() removes these from both ends
Whitespace == {"SP"}

IsPrefix(p, s) == Len(p) <= Len(s) /\ SubSeq(s, 1, Len(p)) = p

Drop(s, n) == SubSeq(s, n + 1, Len(s))

\* str.replace(old, new) for a non-empty old: every non-overlapping
\* occurrence, scanning left to right
RECURSIVE ReplaceNonEmpty(_, _, _)
ReplaceNonEmpty(s, old, new) ==
    IF s = <<>> THEN <<>>
    ELSE IF IsPrefix(old, s)
         THEN new \o ReplaceNonEmpty(Drop(s, Len(old)), old, new)
         ELSE <<Head(s)>> \o ReplaceNonEmpty(Tail(s), old, new)

\* str.replace("", new): new is inserted before every character and at the end
RECURSIVE ReplaceEmpty(_, _)
ReplaceEmpty(s, new) ==
    IF s = <<>> THEN new ELSE new \o <<Head(s)>> \o ReplaceEmpty(Tail(s), new)

StrReplace(s, old, new) ==
    IF old = <<>> THEN ReplaceEmpty(s, new) ELSE ReplaceNonEmpty(s, old, new)

RECURSIVE LStrip(_)
LStrip(s) == IF s # <<>> /\ Head(s) \in Whitespace THEN LStrip(Tail(s)) ELSE s

RECURSIVE RStrip(_)
RStrip(s) ==
    IF s # <<>> /\ s[Len(s)] \in Whitespace THEN RStrip(SubSeq(s, 1, Len(s) - 1)) ELSE s

\* a str.strip() that takes one whitespace character off each end
StripOne(s) ==
    LET l == IF s # <<>> /\ Head(s) \in Whitespace THEN Tail(s) ELSE s
    IN  IF l # <<>> /\ l[Len(l)] \in Whitespace THEN SubSeq(l, 1, Len(l) - 1) ELSE l

Strip(s) == RStrip(LStrip(s))

\* sorted(items, key=len(key), reverse=True): a stable sort, so pairs with keys
\* of equal length keep their insertion order.  A map is its sequence of
\* <<key, value>> pairs in insertion order.
RECURSIVE InsertByLen(_, _)
InsertByLen(pair, sorted) ==
    IF sorted = <<>> THEN <<pair>>
    ELSE IF Len(Head(sorted)[1]) >= Len(pair[1])
         THEN <<Head(sorted)>> \o InsertByLen(pair, Tail(sorted))
         ELSE <<pair>> \o sorted

\* hotwords applied in the order they were entered
SortByEntry(pairs) == pairs

RECURSIVE SortByLenDesc(_)
SortByLenDesc(pairs) ==
    IF pairs = <<>> THEN <<>>
    ELSE InsertByLen(pairs[Len(pairs)],
                     SortByLenDesc(SubSeq(pairs, 1, Len(pairs) - 1)))

RECURSIVE ReplaceAll(_, _)
ReplaceAll(s, pairs) ==
    IF pairs = <<>> THEN s
    ELSE ReplaceAll(StrReplace(s, Head(pairs)[1], Head(pairs)[2]), Tail(pairs))

_apply_hotwords(hotwords, text) ==
    IF hotwords = <<>> THEN text ELSE ReplaceAll(text, SortByLenDesc(hotwords))

_apply_punctuation_map(punctuation_map, text) ==
    IF punctuation_map = <<>> THEN text ELSE ReplaceAll(text, punctuation_map)

\* A text rule is [ok, pattern, replace].  pattern is the regular expression as
\* a sequence of items [ch, plus]: the literal character ch, one or more of it
\* when plus (the "  +" of the configuration example is <<SP, SP+>>).  ok is
\* FALSE for a pattern re.sub rejects with re.error.
Lit(c) == [ch |-> c, plus |-> FALSE]
Plus(c) == [ch |-> c, plus |-> TRUE]

\* the length of the run of c at the start of s
RECURSIVE RunLen(_, _)
RunLen(s, c) == IF s # <<>> /\ Head(s) = c THEN 1 + RunLen(Tail(s), c) ELSE 0

\* the length of the match of items at the start of s, -1 when there is none;
\* a + item is greedy and gives back characters when the rest fails to match
RECURSIVE MatchAt(_, _)
RECURSIVE MatchPlus(_, _, _)
MatchAt(items, s) ==
    IF items = <<>> THEN 0
    ELSE LET it == Head(items) IN
         IF it.plus THEN MatchPlus(items, s, RunLen(s, it.ch))
         ELSE IF s # <<>> /\ Head(s) = it.ch
              THEN LET r == MatchAt(Tail(items), Tail(s)) IN
                   IF r = -1 THEN -1 ELSE 1 + r
              ELSE -1
MatchPlus(items, s, k) ==
    IF k < 1 THEN -1
    ELSE LET r == MatchAt(Tail(items), Drop(s, k)) IN
         IF r # -1 THEN k + r ELSE MatchPlus(items, s, k - 1)

\* re.sub(pattern, replace, text) for a non-empty pattern of items
RECURSIVE ReSub(_, _, _)
ReSub(items, replace, s) ==
    IF s = <<>> THEN <<>>
    ELSE LET m == MatchAt(items, s) IN
         IF m > 0 THEN replace \o ReSub(items, replace, Drop(s, m))
         ELSE <<Head(s)>> \o ReSub(items, replace, Tail(s))

ApplyRule(rule, text) ==
    IF ~rule.ok THEN text                      \* except re.error: the rule is skipped
    ELSE IF rule.pattern = <<>> THEN text      \* if pattern:
    ELSE ReSub(rule.pattern, rule.replace, text)

\* text rules under one try: the first rule re.sub rejects ends the loop
RECURSIVE _apply_text_rules_abort(_, _)
_apply_text_rules_abort(rules, text) ==
    IF rules = <<>> THEN text
    ELSE IF ~Head(rules).ok THEN text
    ELSE _apply_text_rules_abort(Tail(rules), ApplyRule(Head(rules), text))

RECURSIVE _apply_text_rules(_, _)
_apply_text_rules(rules, text) ==
    IF rules = <<>> THEN text
    ELSE _apply_text_rules(Tail(rules), ApplyRule(Head(rules), text))

\* re.sub(r'([...""' '...])\1+', r'\1', text): the pattern is two adjacent
\* literals and only the first is raw, so the \1 of the second is the
\* character \x01 and not a back-reference: a character of the class followed
\* by one or more \x01 is replaced by that character
RECURSIVE CollapseSub(_)
CollapseSub(s) ==
    IF s = <<>> THEN <<>>
    ELSE IF Head(s) \in PunctClass /\ RunLen(Tail(s), "SOH") >= 1
         THEN <<Head(s)>> \o CollapseSub(Drop(s, 1 + RunLen(Tail(s), "SOH")))
         ELSE <<Head(s)>> \o CollapseSub(Tail(s))

\* re.sub(r'([...]) ', r'\1', text)
RECURSIVE SpaceAfterSub(_)
SpaceAfterSub(s) ==
    IF s = <<>> THEN <<>>
    ELSE IF Head(s) \in SpacePunctClass /\ Len(s) >= 2 /\ s[2] = "SP"
         THEN <<Head(s)>> \o SpaceAfterSub(Drop(s, 2))
         ELSE <<Head(s)>> \o SpaceAfterSub(Tail(s))

\* re.sub(r' ([...])', r'\1', text)
RECURSIVE SpaceBeforeSub(_)
SpaceBeforeSub(s) ==
    IF s = <<>> THEN <<>>
    ELSE IF Head(s) = "SP" /\ Len(s) >= 2 /\ s[2] \in SpacePunctClass
         THEN <<s[2]>> \o SpaceBeforeSub(Drop(s, 2))
         ELSE <<Head(s)>> \o SpaceBeforeSub(Tail(s))

_optimize_punctuation(text) == SpaceBeforeSub(SpaceAfterSub(CollapseSub(text)))

\* TextProcessor.process; tp is the processor: the hotwords, punctuation_map
\* and auto_punctuation it holds, and the config it reads text_rules from
process(tp, cfg, text) ==
    IF text = <<>> THEN text
    ELSE LET t1 == _apply_hotwords(tp.hotwords, text)
             t2 == _apply_punctuation_map(tp.punctuation_map, t1)
             t3 == _apply_text_rules(cfg.text_rules, t2)
             t4 == IF tp.auto_punctuation THEN _optimize_punctuation(t3) ELSE t3
         IN  Strip(t4)

----------------------------------------------------------------------------
(* Configuration and hotkeys *)

\* get_hotkey_config: the entries of hotkey_configs; an unknown name falls
\* back to ctrl_alt
get_hotkey_config(hotkey) ==
    CASE hotkey = "cmd_r" ->
           [needs_both |-> FALSE, key |-> "cmd_r", keys |-> <<>>]
      [] hotkey = "ctrl_shift" ->
           [needs_both |-> TRUE, key |-> "none",
            keys |-> <<"ctrl", "ctrl_l", "shift", "shift_l">>]
      [] hotkey = "f13" -> [needs_both |-> FALSE, key |-> "f13", keys |-> <<>>]
      [] hotkey = "f14" -> [needs_both |-> FALSE, key |-> "f14", keys |-> <<>>]
      [] hotkey = "f15" -> [needs_both |-> FALSE, key |-> "f15", keys |-> <<>>]
      [] OTHER ->
           [needs_both |-> TRUE, key |-> "none",
            keys |-> <<"ctrl", "ctrl_l", "alt", "alt_l">>]

\* the hotkey sensevoice_input.py listens for: keyboard.Key.alt, one key
SenseVoiceHotkey == [needs_both |-> FALSE, key |-> "alt", keys |-> <<>>]

\* the hotkey settings the model starts voice_input.py with
HotkeyChoices == {"ctrl_alt", "cmd_r"}

\* DEFAULT_CONFIG['sample_rate']
DefaultSampleRate == 16000

\* sensevoice_input.py: SAMPLE_RATE
SAMPLE_RATE == 16000

\* a sample rate a user may configure instead
OtherSampleRate == DefaultSampleRate \div 2

\* DEFAULT_CONFIG: no hotwords, no punctuation map, no text rules
DefaultConfig ==
    [hotwords |-> <<>>, punctuation_map |-> <<>>, text_rules |-> <<>>,
     auto_punctuation |-> TRUE, sample_rate |-> DefaultSampleRate]

\* a user configuration: a filler word removed, a full stop remapped, one
\* rejected rule and the "  +" rule of the configuration example
UserConfig ==
    [hotwords |-> << <<(<<"a">>), <<>>>> >>,
     punctuation_map |-> << <<(<<"JU">>), <<"DQ">>>> >>,
     text_rules |-> << [ok |-> FALSE, pattern |-> <<>>, replace |-> <<>>],
                       [ok |-> TRUE, pattern |-> <<Lit("SP"), Plus("SP")>>,
                        replace |-> <<"SP">>] >>,
     auto_punctuation |-> TRUE, sample_rate |-> DefaultSampleRate]

ConfigChoices == {DefaultConfig, UserConfig}

\* TextProcessor.__init__: the processor copies three settings out of the config
TextProcessorOf(cfg) ==
    [hotwords |-> cfg.hotwords, punctuation_map |-> cfg.punctuation_map,
     auto_punctuation |-> cfg.auto_punctuation]

\* what stream.result.text may hold after a decode
RecognizerResults == {<<>>, <<"SP">>, <<"a">>, <<"b", "JU", "SP">>}

----------------------------------------------------------------------------
(* State *)

VARIABLES
    program,          \* "voice_input" or "sensevoice": which script runs
    hotkey_config,    \* the hotkey the listener matches
    config,           \* Config.data
    text_processor,   \* the TextProcessor built from config at construction
    down,             \* the keys physically held
    events,           \* raw key events waiting for the listener thread
    nEvents,          \* raw key events produced so far
    listener,         \* where the listener thread is
    key1_pressed,     \* combo mode: the first role's flag
    key2_pressed,     \* combo mode: the second role's flag
    is_recording,
    audio_data,       \* the chunks appended by the audio callback
    openStreams,      \* input streams started and not yet stopped
    indicator,        \* the floating indicator: [visible, label]
    cb,               \* the audio callback thread: [pc, chunk]
    nChunks,          \* chunks the audio device has produced so far
    audio,            \* stop_recording's local: the audio given to the recognizer
    raw_text,         \* stop_recording's local
    text,             \* stop_recording's local: the text to deliver
    engages,          \* history: capture starts
    releases,         \* history: capture stops
    sess,             \* history of the current session
    thrown,           \* history: the error that left a listener callback
    rel               \* history since the last combo release

vars ==
    <<program, hotkey_config, config, text_processor, down, events, nEvents,
      listener, key1_pressed, key2_pressed, is_recording, audio_data,
      openStreams, indicator, cb, nChunks, audio, raw_text, text, engages,
      releases, sess, thrown, rel>>

constVars == <<program, hotkey_config, config, text_processor>>
envVars == <<down, events, nEvents>>
keyVars == <<key1_pressed, key2_pressed>>
localVars == <<audio, raw_text, text>>

\* the keys the keyboard produces events for: the keys of the hotkey and, in
\* single-key mode, one other key (in combo mode a key outside keys changes
\* no flag, and the flags are never both set while idle)
EventKeys ==
    IF hotkey_config.needs_both
    THEN {hotkey_config.keys[i] : i \in 1..4}
    ELSE {hotkey_config.key} \cup {"ctrl"}

\* the keys that may be held when the program starts
HeldAtStart ==
    IF hotkey_config.needs_both THEN hotkey_config.keys[1] ELSE hotkey_config.key

NoSession ==
    [late |-> FALSE, released |-> FALSE, delivered |-> <<>>, recognized |-> 0,
     deliverCalls |-> 0, outcome |-> "none", inflight |-> FALSE,
     recog |-> "none", before |-> <<>>, start |-> DefaultConfig,
     captureRate |-> 0, recogRate |-> 0, rules |-> <<>>]

NoRelease ==
    [role |-> 0, otherReleased |-> FALSE, otherRepeated |-> FALSE,
     engages |-> 0, releases |-> 0, held |-> FALSE, last |-> "none"]

\* the keys that play the same part in the hotkey as k: in combo mode the two
\* variants keys[:2] or keys[2:], else k alone
Variants(k) ==
    IF ~hotkey_config.needs_both THEN {k}
    ELSE IF k \in {hotkey_config.keys[1], hotkey_config.keys[2]}
         THEN {hotkey_config.keys[1], hotkey_config.keys[2]}
         ELSE {hotkey_config.keys[3], hotkey_config.keys[4]}

\* the session state of the controller, read off the code's state: Recording
\* while is_recording, Recognizing while stop_recording (and the delivery that
\* follows) runs past clearing the flag, Idle otherwise
State ==
    IF is_recording THEN "Recording"
    ELSE IF listener \in {"stop_stream", "decode", "paste"} THEN "Recognizing"
    ELSE "Idle"

Init ==
    /\ \/ /\ program = "voice_input"
          /\ hotkey_config \in {get_hotkey_config(h) : h \in HotkeyChoices}
          /\ config \in ConfigChoices
       \/ /\ program = "sensevoice"
          /\ hotkey_config = SenseVoiceHotkey
          /\ config = DefaultConfig
    /\ text_processor = TextProcessorOf(config)
    /\ down \in {{}, {HeldAtStart}}
    /\ events = <<>>
    /\ nEvents = 0
    /\ listener = "idle"
    /\ key1_pressed = FALSE
    /\ key2_pressed = FALSE
    /\ is_recording = FALSE
    /\ audio_data = <<>>
    /\ openStreams = 0
    /\ indicator = [visible |-> FALSE, label |-> "recording"]
    /\ cb = [pc |-> "idle", chunk |-> 0]
    /\ nChunks = 0
    /\ audio = <<>>
    /\ raw_text = <<>>
    /\ text = <<>>
    /\ engages = 0
    /\ releases = 0
    /\ sess = NoSession
    /\ thrown = "none"
    /\ rel = NoRelease

----------------------------------------------------------------------------
(* The keyboard: raw key events *)

\* a key goes down, or repeats while held (a dead listener thread receives no
\* events)
KeyPress ==
    /\ listener # "dead"
    /\ nEvents < MaxEvents
    /\ Len(events) < MaxQueue
    /\ \E k \in EventKeys :
         /\ events' = Append(events, [key |-> k, press |-> TRUE,
                                      repeat |-> k \in down,
                                      late |-> State = "Recognizing",
                                      held |-> Variants(k) \cap (down \ {k}) # {}])
         /\ down' = down \cup {k}
    /\ nEvents' = nEvents + 1
    /\ UNCHANGED <<constVars, listener, keyVars, is_recording, audio_data,
                   openStreams, indicator, cb, nChunks, localVars, engages,
                   releases, sess, thrown, rel>>

\* a held key goes up
KeyRelease ==
    /\ listener # "dead"
    /\ nEvents < MaxEvents
    /\ Len(events) < MaxQueue
    /\ \E k \in down :
         /\ events' = Append(events, [key |-> k, press |-> FALSE,
                                      repeat |-> FALSE,
                                      late |-> State = "Recognizing",
                                      held |-> Variants(k) \cap (down \ {k}) # {}])
         /\ down' = down \ {k}
    /\ nEvents' = nEvents + 1
    /\ UNCHANGED <<constVars, listener, keyVars, is_recording, audio_data,
                   openStreams, indicator, cb, nChunks, localVars, engages,
                   releases, sess, thrown, rel>>

----------------------------------------------------------------------------
(* The listener thread: on_press, on_release, start_recording, stop_recording *)

\* combo mode: the role of a key, keys[:2] the first and keys[2:] the second
RoleOf(key) ==
    IF ~hotkey_config.needs_both THEN 0
    ELSE IF key \in {hotkey_config.keys[1], hotkey_config.keys[2]} THEN 1
    ELSE IF key \in {hotkey_config.keys[3], hotkey_config.keys[4]} THEN 2
    ELSE 0

\* combo on_press: the flags <<key1_pressed, key2_pressed>> after the update
ComboPressFlags(role, k1, k2) ==
    IF role = 1 THEN <<TRUE, k2>> ELSE IF role = 2 THEN <<k1, TRUE>> ELSE <<k1, k2>>

\* a combo on_release that clears no flag
ComboReleaseFlagsKept(role, k1, k2) == <<k1, k2>>

\* combo on_release: the flags <<key1_pressed, key2_pressed>> after the update
ComboReleaseFlags(role, k1, k2) ==
    IF role = 1 THEN <<FALSE, k2>> ELSE IF role = 2 THEN <<k1, FALSE>> ELSE <<k1, k2>>

\* the flags after the handler of ev
FlagsAfter(ev) ==
    IF ~hotkey_config.needs_both \/ program = "sensevoice"
    THEN <<key1_pressed, key2_pressed>>
    ELSE IF ev.press
         THEN ComboPressFlags(RoleOf(ev.key), key1_pressed, key2_pressed)
         ELSE ComboReleaseFlags(RoleOf(ev.key), key1_pressed, key2_pressed)

\* an on_press that asks for a start on the press of any key
CallsStartAnyKey(ev) == ev.press /\ ~is_recording

\* on_press calls start_recording
CallsStart(ev) ==
    /\ ev.press
    /\ IF program = "sensevoice" THEN ev.key = hotkey_config.key
       ELSE IF hotkey_config.needs_both
            THEN FlagsAfter(ev)[1] /\ FlagsAfter(ev)[2] /\ ~is_recording
            ELSE ev.key = hotkey_config.key /\ ~is_recording

\* on_release calls stop_recording
CallsStop(ev) ==
    /\ ~ev.press
    /\ IF program = "sensevoice" THEN ev.key = hotkey_config.key
       ELSE IF hotkey_config.needs_both
            THEN RoleOf(ev.key) # 0 /\ is_recording
            ELSE ev.key = hotkey_config.key /\ is_recording

\* a start_recording without its guard
NeverAlreadyRecording(recording) == FALSE

\* start_recording's guard: if self.is_recording: return
AlreadyRecording(recording) == recording

\* a start_recording that leaves is_recording as it was
StartEffectsNoFlag(recording, data) ==
    [is_recording |-> recording, audio_data |-> <<>>]

\* a start_recording that keeps the chunks of the session before
StartEffectsKeepData(recording, data) ==
    [is_recording |-> TRUE, audio_data |-> data]

\* start_recording past its guard: is_recording = True; audio_data = []
StartEffects(recording, data) == [is_recording |-> TRUE, audio_data |-> <<>>]

\* indicator.show(...): voice_input.py only
Shown(ind) ==
    IF program = "voice_input" THEN [visible |-> TRUE, label |-> "recording"] ELSE ind

\* indicator.update_text(...): the label changes, the window is not ordered front
Updated(ind) ==
    IF program = "voice_input" THEN [ind EXCEPT !.label = "recognizing"] ELSE ind

\* an indicator that stays on screen until after the delivery
HiddenAfterDelivery(ind) == ind

\* indicator.hide()
Hidden(ind) ==
    IF program = "voice_input" THEN [ind EXCEPT !.visible = FALSE] ELSE ind

\* what the single-key handlers make of ev: a press of the hotkey starts a
\* session or, while recording, is a repeat; a release of it stops the session
\* or, while not recording, is stray; any other key is no concern of theirs
HandledAs(ev) ==
    IF hotkey_config.needs_both THEN "none"
    ELSE IF ev.key # hotkey_config.key THEN "other"
    ELSE IF ev.press THEN (IF is_recording THEN "repeat" ELSE "start")
    ELSE IF is_recording THEN "stop" ELSE "stray"

\* history of the handled key events: what the last one was, and for the combo
\* release which role's key ended the session, whether another variant of that
\* role was held at that moment, and what the other role's key did since
RelAfter(ev, stops) ==
    LET r == IF stops /\ hotkey_config.needs_both
             THEN [role |-> RoleOf(ev.key), otherReleased |-> FALSE,
                   otherRepeated |-> FALSE, engages |-> engages,
                   releases |-> releases + 1, held |-> ev.held,
                   last |-> "none"]
             ELSE IF rel.role = 0 \/ RoleOf(ev.key) = 0 THEN rel
             ELSE IF RoleOf(ev.key) = rel.role
                  THEN (IF ev.press THEN NoRelease ELSE rel)
                  ELSE IF ev.press
                       THEN [rel EXCEPT !.otherRepeated =
                                            rel.otherRepeated \/ ev.repeat]
                       ELSE [rel EXCEPT !.otherReleased = TRUE]
    IN  [r EXCEPT !.last = HandledAs(ev)]

\* the listener calls on_press or on_release for the next raw event; the
\* handler runs start_recording up to opening the stream, or stop_recording up
\* to stopping it
Take ==
    /\ listener = "idle"
    /\ events # <<>>
    /\ LET ev == Head(events)
           flags == FlagsAfter(ev)
           starts == CallsStart(ev) /\ ~AlreadyRecording(is_recording)
           stops == CallsStop(ev) /\ is_recording
           eff == StartEffects(is_recording, audio_data)
       IN  /\ events' = Tail(events)
           /\ key1_pressed' = flags[1]
           /\ key2_pressed' = flags[2]
           /\ rel' = RelAfter(ev, stops)
           /\ IF starts
              THEN /\ is_recording' = eff.is_recording
                   /\ audio_data' = eff.audio_data
                   /\ indicator' = Shown(indicator)
                   /\ listener' = "start_open"
                   /\ engages' = engages + 1
                   /\ sess' = [NoSession EXCEPT !.late = ev.late,
                                                !.before = audio_data,
                                                !.start = config]
                   /\ UNCHANGED releases
              ELSE IF stops
              THEN /\ is_recording' = FALSE
                   /\ listener' = "stop_stream"
                   /\ releases' = releases + 1
                   /\ sess' = [sess EXCEPT !.released = TRUE,
                                           !.inflight = cb.pc = "append"]
                   /\ UNCHANGED <<audio_data, indicator, engages>>
              ELSE UNCHANGED <<is_recording, audio_data, indicator, listener,
                               engages, releases, sess>>
    /\ UNCHANGED <<constVars, down, nEvents, openStreams, cb, nChunks,
                   localVars, thrown>>

\* the sample rate the code reads where it needs one:
\* config.get('sample_rate', 16000), SAMPLE_RATE in sensevoice_input.py
SampleRate ==
    IF program = "sensevoice" THEN SAMPLE_RATE ELSE config.sample_rate

\* start_recording: sd.InputStream(samplerate=...) and stream.start() succeed
StartOpenOk ==
    /\ listener = "start_open"
    /\ openStreams' = openStreams + 1
    /\ listener' = "idle"
    /\ sess' = [sess EXCEPT !.captureRate = SampleRate]
    /\ UNCHANGED <<constVars, envVars, keyVars, is_recording, audio_data,
                   indicator, cb, nChunks, localVars, engages, releases,
                   thrown, rel>>

\* start_recording: opening or starting the stream raises; the exception
\* leaves on_press and ends the listener thread
StartOpenFail ==
    /\ listener = "start_open"
    /\ listener' = "dead"
    /\ thrown' = "open"
    /\ UNCHANGED <<constVars, envVars, keyVars, is_recording, audio_data,
                   openStreams, indicator, cb, nChunks, localVars, engages,
                   releases, sess, rel>>

\* an empty check that never takes the early return
NoAudioNever(data) == FALSE

\* stop_recording: if not self.audio_data
NoAudio(data) == data = <<>>

\* a delivery guard that lets every text through
HasTextAlways(t) == TRUE

\* if text: in stop_recording (voice_input.py) and in on_release and type_text
\* (sensevoice_input.py)
HasText(t) == t # <<>>

\* np.concatenate(self.audio_data, axis=0).flatten(): the chunks in order
Concatenate(data) == data

\* stop_recording: stream.stop() returns once the callback in progress has
\* finished; stream.close(); the indicator is updated; with no chunk the
\* handler returns, otherwise the chunks are concatenated for the recognizer
StopStream ==
    /\ listener = "stop_stream"
    /\ cb.pc = "idle"
    /\ openStreams' = openStreams - 1
    /\ IF NoAudio(audio_data)
       THEN /\ indicator' = Hidden(Updated(indicator))
            /\ listener' = "idle"
            /\ sess' = [sess EXCEPT !.outcome = "no_audio"]
            /\ UNCHANGED audio
       ELSE /\ indicator' = Updated(indicator)
            /\ audio' = Concatenate(audio_data)
            /\ listener' = "decode"
            /\ UNCHANGED sess
    /\ UNCHANGED <<constVars, envVars, keyVars, is_recording, audio_data, cb,
                   nChunks, raw_text, text, engages, releases, thrown, rel>>

\* the text stop_recording ends with for a recognizer result
TextOf(result) ==
    IF program = "voice_input"
    THEN process(text_processor, config, Strip(result))
    ELSE Strip(result)

\* history: what the recognizer and the post-processing produced
RecogOf(result) ==
    IF Strip(result) = <<>> THEN "raw_empty"
    ELSE IF TextOf(result) = <<>> THEN "processed_empty"
    ELSE "text"

\* stop_recording: the recognizer decodes and returns; the text is
\* post-processed, the indicator hidden, and a non-empty text goes to
\* paste_text (type_text in sensevoice_input.py)
DecodeOk ==
    /\ listener = "decode"
    /\ \E result \in RecognizerResults :
         /\ indicator' = Hidden(indicator)
         /\ IF HasText(TextOf(result))
            THEN /\ raw_text' = Strip(result)
                 /\ text' = TextOf(result)
                 /\ listener' = "paste"
                 /\ sess' = [sess EXCEPT !.recognized = @ + 1,
                                         !.recog = RecogOf(result),
                                         !.recogRate = SampleRate,
                                         !.rules = config.text_rules]
                 /\ UNCHANGED audio
            ELSE /\ raw_text' = <<>>
                 /\ text' = <<>>
                 /\ audio' = <<>>
                 /\ listener' = "idle"
                 /\ sess' = [sess EXCEPT !.recognized = @ + 1,
                                         !.recog = RecogOf(result),
                                         !.recogRate = SampleRate,
                                         !.rules = config.text_rules,
                                         !.outcome = "empty_text"]
    /\ UNCHANGED <<constVars, envVars, keyVars, is_recording, audio_data,
                   openStreams, cb, nChunks, engages, releases, thrown, rel>>

\* stop_recording: the recognizer raises; nothing catches it, so it leaves
\* stop_recording and on_release and ends the listener thread
DecodeFail ==
    /\ listener = "decode"
    /\ listener' = "dead"
    /\ thrown' = "recognizer"
    /\ audio' = <<>>
    /\ sess' = [sess EXCEPT !.recognized = @ + 1, !.recogRate = SampleRate,
                            !.outcome = "recog_failed"]
    /\ UNCHANGED <<constVars, envVars, keyVars, is_recording, audio_data,
                   openStreams, indicator, cb, nChunks, raw_text, text,
                   engages, releases, rel>>

\* paste_text / type_text: the subprocess calls succeed
PasteOk ==
    /\ listener = "paste"
    /\ listener' = "idle"
    /\ audio' = <<>>
    /\ raw_text' = <<>>
    /\ text' = <<>>
    /\ sess' = [sess EXCEPT !.deliverCalls = @ + 1, !.outcome = "delivered"]
    /\ UNCHANGED <<constVars, envVars, keyVars, is_recording, audio_data,
                   openStreams, indicator, cb, nChunks, engages, releases,
                   thrown, rel>>

\* a delivery failure that puts the controller back into recording
PasteFailReopens ==
    /\ listener = "paste"
    /\ listener' = "idle"
    /\ is_recording' = TRUE
    /\ audio' = <<>>
    /\ raw_text' = <<>>
    /\ text' = <<>>
    /\ sess' = [sess EXCEPT !.deliverCalls = @ + 1, !.outcome = "delivery_failed"]
    /\ UNCHANGED <<constVars, envVars, keyVars, audio_data, openStreams,
                   indicator, cb, nChunks, engages, releases, thrown, rel>>

\* paste_text / type_text: subprocess.run(..., check=True) raises
\* CalledProcessError; nothing catches it, so it leaves on_release and ends
\* the listener thread
PasteFail ==
    /\ listener = "paste"
    /\ listener' = "dead"
    /\ thrown' = "delivery"
    /\ audio' = <<>>
    /\ raw_text' = <<>>
    /\ text' = <<>>
    /\ sess' = [sess EXCEPT !.deliverCalls = @ + 1, !.outcome = "delivery_failed"]
    /\ UNCHANGED <<constVars, envVars, keyVars, is_recording, audio_data,
                   openStreams, indicator, cb, nChunks, engages, releases, rel>>

----------------------------------------------------------------------------
(* The audio callback thread *)

\* the running stream calls audio_callback with the next chunk; the callback
\* reads is_recording and goes on to append, or drops the chunk
CbCheck ==
    /\ openStreams > 0
    /\ cb.pc = "idle"
    /\ nChunks < MaxChunks
    /\ nChunks' = nChunks + 1
    /\ IF is_recording
       THEN /\ cb' = [pc |-> "append", chunk |-> nChunks + 1]
            /\ sess' = [sess EXCEPT !.delivered = Append(@, nChunks + 1)]
       ELSE UNCHANGED <<cb, sess>>
    /\ UNCHANGED <<constVars, envVars, listener, keyVars, is_recording,
                   audio_data, openStreams, indicator, localVars, engages,
                   releases, thrown, rel>>

\* audio_callback: self.audio_data.append(indata.copy())
CbAppend ==
    /\ cb.pc = "append"
    /\ audio_data' = Append(audio_data, cb.chunk)
    /\ cb' = [pc |-> "idle", chunk |-> 0]
    /\ UNCHANGED <<constVars, envVars, listener, keyVars, is_recording,
                   openStreams, indicator, nChunks, localVars, engages,
                   releases, sess, thrown, rel>>

----------------------------------------------------------------------------
(* Specifications *)

Next ==
    \/ KeyPress
    \/ KeyRelease
    \/ Take
    \/ StartOpenOk
    \/ StartOpenFail
    \/ StopStream
    \/ DecodeOk
    \/ DecodeFail
    \/ PasteOk
    \/ PasteFail
    \/ CbCheck
    \/ CbAppend

Spec == Init /\ [][Next]_vars

\* a handler that has started runs on: the listener thread is scheduled, the
\* recognizer and the delivery subprocesses return or raise, and the audio
\* callback that stream.stop() waits for finishes
HandlerRuns ==
    StartOpenOk \/ StartOpenFail \/ StopStream \/ DecodeOk \/ DecodeFail
        \/ PasteOk \/ PasteFail

FairSpec == Spec /\ WF_vars(HandlerRuns) /\ WF_vars(CbAppend)

\* the settings that are edited while the program runs, and the values they
\* are given
ConfigKeys == {"sample_rate", "text_rules", "hotwords"}

ConfigValues(key) ==
    CASE key = "sample_rate" -> {OtherSampleRate}
      [] key = "text_rules" -> {<<>>}
      [] key = "hotwords" -> {<<>>}

\* Config.set(key, value), called from another thread than the listener's:
\* the value stored under key is replaced (and the file saved). The
\* TextProcessor keeps what it copied at construction.
ConfigSet ==
    /\ program = "voice_input"
    /\ listener # "dead"
    /\ \E key \in ConfigKeys : \E value \in ConfigValues(key) :
         /\ config[key] # value
         /\ config' = [config EXCEPT ![key] = value]
    /\ UNCHANGED <<program, hotkey_config, text_processor, envVars, listener,
                   keyVars, is_recording, audio_data, openStreams, indicator,
                   cb, nChunks, localVars, engages, releases, sess, thrown,
                   rel>>

\* main() never calls Config.set; with the edits of the configuration added:
NextSet ==
    \/ Next
    \/ ConfigSet

SpecSet == Init /\ [][NextSet]_vars

----------------------------------------------------------------------------
(* The text post-processing on its own: the recognizer's text goes through *)
(* TextProcessor.process, and the result through process once more         *)

\* a configuration with the hotwords of a short key inside a longer one, the
\* shorter key entered first
HotConfig ==
    [DefaultConfig EXCEPT
        !.hotwords = << <<(<<"bei", "jing">>), <<"Beijing">>>>,
                        <<(<<"bei", "jing", "shi">>),
                          <<"Beijing", "SP", "City">>>> >>]

\* a configuration with a rule re.sub rejects between two rules it accepts
RuleConfig ==
    [DefaultConfig EXCEPT
        !.text_rules =
            << [ok |-> TRUE, pattern |-> <<Lit("shi")>>, replace |-> <<"jing">>],
               [ok |-> FALSE, pattern |-> <<>>, replace |-> <<>>],
               [ok |-> TRUE, pattern |-> <<Lit("jing")>>, replace |-> <<"bei">>] >>]

\* a configuration that removes a word and leaves the punctuation alone
DropConfig ==
    [DefaultConfig EXCEPT
        !.hotwords = << <<(<<"bei", "jing">>), <<>>>> >>,
        !.auto_punctuation = FALSE]

TextConfigs == {DefaultConfig, UserConfig, HotConfig, RuleConfig, DropConfig}

\* the characters of the recognizer's text
TextAlphabet == {"bei", "jing", "shi", "JU", "SP", "SOH"}

\* longer texts of interest
ExampleRuns == <<"ni", "hao", "JU", "JU", "JU", "shi2", "jie">>
ExampleBeijing == <<"bei", "jing", "shi", "chao", "yang", "qu">>
ExampleTexts ==
    {ExampleRuns, ExampleBeijing, <<"bei", "JU", "SP", "SP", "jing">>,
     <<"bei", "bei", "jing", "jing">>}

\* the texts the recognizer returns
Texts ==
    UNION {[1..n -> TextAlphabet] : n \in 0..MaxTextLen} \cup ExampleTexts

TextInit ==
    /\ program = "voice_input"
    /\ hotkey_config = get_hotkey_config("cmd_r")
    /\ config \in TextConfigs
    /\ text_processor = TextProcessorOf(config)
    /\ down = {}
    /\ events = <<>>
    /\ nEvents = 0
    /\ listener = "text_in"
    /\ key1_pressed = FALSE
    /\ key2_pressed = FALSE
    /\ is_recording = FALSE
    /\ audio_data = <<>>
    /\ openStreams = 0
    /\ indicator = [visible |-> FALSE, label |-> "recording"]
    /\ cb = [pc |-> "idle", chunk |-> 0]
    /\ nChunks = 0
    /\ audio = <<>>
    /\ raw_text \in Texts
    /\ text = <<>>
    /\ engages = 0
    /\ releases = 0
    /\ sess = NoSession
    /\ thrown = "none"
    /\ rel = NoRelease

\* text = self.text_processor.process(text)
ProcessText ==
    /\ listener = "text_in"
    /\ text' = process(text_processor, config, raw_text)
    /\ listener' = "text_out"
    /\ UNCHANGED <<constVars, envVars, keyVars, is_recording, audio_data,
                   openStreams, indicator, cb, nChunks, audio, raw_text,
                   engages, releases, sess, thrown, rel>>

\* the processed text is processed again
ProcessAgain ==
    /\ listener = "text_out"
    /\ raw_text' = text
    /\ text' = process(text_processor, config, text)
    /\ listener' = "text_again"
    /\ UNCHANGED <<constVars, envVars, keyVars, is_recording, audio_data,
                   openStreams, indicator, cb, nChunks, audio, engages,
                   releases, sess, thrown, rel>>

TextNext ==
    \/ ProcessText
    \/ ProcessAgain

TextSpec == TextInit /\ [][TextNext]_vars

TypeOK ==
    /\ listener \in {"idle", "start_open", "stop_stream", "decode", "paste", "dead"}
    /\ is_recording \in BOOLEAN
    /\ openStreams \in 0..1
    /\ nChunks \in 0..MaxChunks
    /\ nEvents \in 0..MaxEvents
    /\ Len(events) <= MaxQueue

----------------------------------------------------------------------------
(* Claims *)

\* C1: a hotkey activation that arrives while a session is Recognizing is
\* ignored: no capture is ever started by a key event that was produced
\* between a session's release and the end of its recognition and delivery.
C1_EngageIgnoredWhileRecognizing == ~sess.late

\* C2: once a release is accepted in Recording the session state eventually
\* returns to Idle, whatever the outcome, and a delivery step never sets
\* is_recording again.
C2_ReturnsToIdle ==
    /\ (listener = "stop_stream") ~> (State = "Idle")
    /\ [][listener = "paste" => ~is_recording']_vars

\* C2 witness: a session whose delivery failed is back in Idle
C2_Witness == sess.outcome = "delivery_failed" /\ State = "Idle"

\* C3: no recognizer error and no delivery error leaves the release handling
\* into the listener callback that called it.
C3_NoErrorLeavesRelease == thrown \notin {"recognizer", "delivery"}

\* C4: after a recognizer failure the indicator is hidden, deliver was not
\* called and the state is Idle, as after an empty recognition result.
C4_RecognizerFailureLikeEmpty ==
    sess.outcome = "recog_failed" =>
        /\ ~indicator.visible
        /\ sess.deliverCalls = 0
        /\ State = "Idle"

\* C5: a session in which the callback delivered no chunk between engage and
\* release, once its stream is stopped, has raised nothing, has not invoked
\* the recognizer, has not called deliver, and is back in Idle.
C5_NoAudioSession ==
    (sess.released /\ sess.delivered = <<>> /\ listener # "stop_stream") =>
        /\ State = "Idle"
        /\ listener = "idle"
        /\ thrown = "none"
        /\ sess.recognized = 0
        /\ sess.deliverCalls = 0

\* C5 witness: engage, release with nothing appended, stream stopped
C5_Witness ==
    sess.released /\ sess.delivered = <<>> /\ sess.outcome = "no_audio"

\* C6: deliver is called only with non-empty text and at most once per
\* session; when the recognizer returns the empty string or post-processing
\* yields the empty text there is no deliver call and the state is Idle.
C6_DeliverOnlyNonEmpty ==
    /\ sess.deliverCalls <= 1
    /\ listener = "paste" => text # <<>>
    /\ sess.recog \in {"raw_empty", "processed_empty"} =>
           /\ sess.deliverCalls = 0
           /\ listener = "idle"
           /\ State = "Idle"

\* C6 witness: a non-empty recognition that post-processing emptied
C6_Witness == sess.recog = "processed_empty" /\ State = "Idle"

\* C7: on a combo hotkey the capture starts never exceed the capture stops by
\* more than one, and never fall behind them: starts and stops alternate.
C7_ComboEngageRelease ==
    hotkey_config.needs_both =>
        /\ releases <= engages
        /\ engages <= releases + 1

\* C7 witness: a second combo session has started after the first stopped
C7_Witness == hotkey_config.needs_both /\ engages = 2 /\ releases = 1

\* C8: after the release of a key of one role has stopped a combo session,
\* and until a key of that role is pressed again, there is no second capture
\* stop and no capture start, whatever the other role's key does.
C8_OneReleasePerCombo ==
    rel.role # 0 => engages = rel.engages /\ releases = rel.releases

\* C8 witness: after the stop the other role's key was released as well, and
\* the session count stands at one start and one stop
C8_Witness ==
    rel.role # 0 /\ rel.otherReleased /\ engages = 1 /\ releases = 1

\* C9: the audio given to the recognizer is the chunks the callback delivered
\* during the session, in order, and after the read nothing is appended.
C9_AudioIsDeliveredChunks ==
    /\ listener \in {"decode", "paste"} =>
           /\ audio = sess.delivered
           /\ audio_data = audio
           /\ cb.pc = "idle"
    /\ sess.outcome = "no_audio" => sess.delivered = <<>>

\* C9 witness: two chunks, the second still being appended when the release
\* cleared is_recording
C9_Witness == listener = "decode" /\ Len(audio) = 2 /\ sess.inflight

\* C10: while a recognition is in progress the listener thread is free to
\* take the next raw key event.
C10_ListenerNotBlockedByRecognition ==
    (listener = "decode" /\ events # <<>>) => ENABLED Take

\* C11: in voice_input.py the indicator is shown before the capture stream is
\* opened, and it is hidden before the delivery is attempted.
C11_IndicatorBeforeStreamAndDelivery ==
    program = "voice_input" =>
        /\ listener = "start_open" => indicator.visible /\ openStreams = 0
        /\ openStreams > 0 /\ is_recording => indicator.visible
        /\ listener = "paste" => ~indicator.visible

\* C11 witness: a session that was started is about to paste its text with
\* the indicator already hidden
C11_Witness ==
    /\ program = "voice_input"
    /\ listener = "paste"
    /\ engages >= 1
    /\ ~indicator.visible

\* C16: in combo mode the release of one variant of a role's key does not end
\* the session while the other variant of that role is still held.
C16_VariantHeldKeepsSession ==
    rel.role # 0 => ~rel.held

\* the key events the single-key handlers have to ignore
Ignored(ev) ==
    /\ ~hotkey_config.needs_both
    /\ HandledAs(ev) \in {"repeat", "stray", "other"}

\* C17: in single-key mode the handler of a repeated press of the hotkey
\* during a capture, of a release of the hotkey while no capture runs, and of
\* any other key changes nothing of the session: no start, no buffer reset, no
\* stop, no recognition, no delivery.
C17_SingleKeyEdgeOnly ==
    [][(events # <<>> /\ events' = Tail(events) /\ Ignored(Head(events)))
         => UNCHANGED <<is_recording, audio_data, openStreams, listener,
                        indicator, engages, releases, sess, localVars,
                        thrown>>]_vars

\* C17 witness: voice_input.py in single-key mode has handled a repeated press
\* during its first capture, and the chunk recorded before it is still there
C17_Witness ==
    /\ program = "voice_input"
    /\ ~hotkey_config.needs_both
    /\ rel.last = "repeat"
    /\ is_recording
    /\ engages = 1
    /\ Len(audio_data) >= 1

\* C18: a call of start_recording while recording opens no stream and leaves
\* the chunks, the indicator and the flag as they are, and there is never more
\* than one capture stream open.
C18_StartWhileStartedIsNoOp ==
    /\ [](openStreams <= 1)
    /\ [][(events # <<>> /\ events' = Tail(events) /\ is_recording
             /\ CallsStart(Head(events)))
            => UNCHANGED <<is_recording, audio_data, openStreams, listener,
                           indicator, engages, sess>>]_vars

\* C18 witness: sensevoice_input.py, whose on_press calls start_recording on
\* every press of the hotkey, has handled a repeated press with the stream
\* open and a chunk recorded
C18_Witness ==
    /\ program = "sensevoice"
    /\ rel.last = "repeat"
    /\ is_recording
    /\ openStreams = 1
    /\ Len(audio_data) >= 1

C12_SessionUsesSnapshot ==
    (program = "voice_input" /\ engages >= 1) =>
        /\ sess.captureRate # 0 => sess.captureRate = sess.start.sample_rate
        /\ sess.recogRate # 0 => sess.recogRate = sess.start.sample_rate
        /\ sess.recog # "none" =>
               /\ sess.rules = sess.start.text_rules
               /\ text_processor.hotwords = sess.start.hotwords

\* sub occurs in s
Contains(s, sub) ==
    \E i \in 0..(Len(s) - Len(sub)) : SubSeq(s, i + 1, i + Len(sub)) = sub

\* s has two identical punctuation marks in a row
HasPunctRun(s) ==
    \E i \in 1..(Len(s) - 1) : s[i] \in PunctClass /\ s[i + 1] = s[i]

Chars(s) == {s[i] : i \in 1..Len(s)}

\* C13: with auto_punctuation on, process leaves no run of two or more
\* identical punctuation marks (texts without spaces and control characters),
\* and the text ni hao JU JU JU shi2 jie comes out as ni hao JU shi2 jie.
C13_PunctuationRunsCollapse ==
    (listener = "text_out" /\ text_processor.auto_punctuation
       /\ Chars(raw_text) \cap {"SP", "SOH"} = {}) =>
        /\ ~HasPunctRun(text)
        /\ (config = DefaultConfig /\ raw_text = ExampleRuns) =>
               text = <<"ni", "hao", "JU", "shi2", "jie">>

\* no hotword key that occurs in a value of the hotwords or of the punctuation
\* map occurs in s
NoKeyOfAValue(tp, s) ==
    \A i \in 1..Len(tp.hotwords) :
        (\/ \E j \in 1..Len(tp.hotwords) :
                Contains(tp.hotwords[j][2], tp.hotwords[i][1])
         \/ \E j \in 1..Len(tp.punctuation_map) :
                Contains(tp.punctuation_map[j][2], tp.hotwords[i][1]))
            => ~Contains(s, tp.hotwords[i][1])

\* C14 (as stated): for a text without punctuation runs and without a hotword
\* key that occurs in a hotword or punctuation value, processing the
\* processed text again changes nothing.
C14_ProcessIdempotent ==
    (listener = "text_out" /\ ~HasPunctRun(raw_text)
       /\ NoKeyOfAValue(text_processor, raw_text)) =>
        process(text_processor, config, text) = text

\* the rule is applied somewhere in s
RuleMatches(rule, s) ==
    /\ rule.ok
    /\ rule.pattern # <<>>
    /\ \E i \in 0..(Len(s) - 1) : MatchAt(rule.pattern, Drop(s, i)) > 0

\* nothing in s for any step of process to work on: no hotword key, no
\* punctuation key, no match of a text rule and, with auto_punctuation, no
\* space next to a mark of the spacing class and no mark followed by \x01
Normalized(tp, cfg, s) ==
    /\ \A i \in 1..Len(tp.hotwords) : ~Contains(s, tp.hotwords[i][1])
    /\ \A i \in 1..Len(tp.punctuation_map) :
           ~Contains(s, tp.punctuation_map[i][1])
    /\ \A i \in 1..Len(cfg.text_rules) : ~RuleMatches(cfg.text_rules[i], s)
    /\ tp.auto_punctuation =>
           \A i \in 1..(Len(s) - 1) :
               /\ ~(s[i] \in SpacePunctClass /\ s[i + 1] = "SP")
               /\ ~(s[i] = "SP" /\ s[i + 1] \in SpacePunctClass)
               /\ ~(s[i] \in PunctClass /\ s[i + 1] = "SOH")

\* C14 (amended): when the processed text holds nothing for a step of process
\* to work on, processing it again changes nothing.
C14_IdempotentOnNormalized ==
    (listener = "text_again" /\ Normalized(text_processor, config, raw_text))
        => text = raw_text

\* C14 witness: a text in which the first pass has mapped a full stop to a
\* quote is unchanged by the second pass
C14_Witness ==
    /\ listener = "text_again"
    /\ config = UserConfig
    /\ Contains(raw_text, <<"DQ">>)
    /\ Normalized(text_processor, config, raw_text)
    /\ text = raw_text

\* C15: hotwords are applied longest key first: with bei jing -> Beijing
\* entered before bei jing shi -> Beijing City, every bei jing shi of the text
\* becomes Beijing City and never Beijing shi.
C15_LongestHotwordFirst ==
    (listener = "text_out" /\ config = HotConfig) =>
        /\ ~Contains(text, <<"Beijing", "shi">>)
        /\ Contains(raw_text, <<"bei", "jing", "shi">>) =>
               Contains(text, <<"Beijing", "SP", "City">>)
        /\ raw_text = ExampleBeijing =>
               text = <<"Beijing", "SP", "City", "chao", "yang", "qu">>

\* C15 witness: the text of the example has been processed
C15_Witness ==
    /\ listener = "text_out"
    /\ config = HotConfig
    /\ raw_text = ExampleBeijing
    /\ Contains(text, <<"Beijing", "SP", "City">>)

\* the rules re.sub accepts, in list order
WellFormed(rules) == SelectSeq(rules, LAMBDA r : r.ok)

C21_RecordingIffStreamOpen ==
    listener \in {"idle", "dead"} => (is_recording <=> openStreams > 0)

====
